---------------------------- MODULE Spec2Model ----------------------------
(***************************************************************************)
(* Models of the programs of the repository, one group of variables each:   *)
(*                                                                           *)
(*   - seat booking with lease locks (BookingSystem.bookSeats over          *)
(*     DummyRedis),                                                          *)
(*   - the vending machine,                                                  *)
(*   - the ATM,                                                              *)
(*   - the car rental,                                                       *)
(*   - the cache with the LRU eviction policy,                               *)
(*   - the elevator system,                                                  *)
(*   - tic-tac-toe,                                                          *)
(*   - the snake game.                                                       *)
(*                                                                           *)
(* Each specification below runs the operations of one program and leaves    *)
(* the variables of the others as Init sets them.                            *)
(*                                                                           *)
(* bookSeats is an async function: it runs without interruption from one    *)
(* `await` to the next.  DummyRedis.set and DummyRedis.del contain no await, *)
(* so the store is read and written at the moment acquireLock/releaseLock   *)
(* is called, and the caller is suspended right after.  Every action of the  *)
(* seat booking is one such uninterrupted stretch of one bookSeats call.     *)
(* The other programs are synchronous: an action is one call.                *)
(***************************************************************************)
EXTENDS Integers, Sequences, FiniteSets, TLC

\* ------------------------------------------------------------------ bounds
NumAttempts == 2        \* calls of bookSeats, numbered in the order made
MaxTicks == 2           \* how often the clock advances
TickMs == 1500          \* milliseconds per clock advance
MaxCoins == 3           \* how many coins are inserted into the vending machine
MaxTransactions == 3    \* how many times performTransaction runs on the ATM
MaxReservations == 2    \* how many reservations the car rental creates
MaxRequests == 2        \* how many requests the elevator system handles
MaxLoops == 4           \* how many times the timer of the snake game fires

\* ------------------------------------------------------- program constants
LOCK_TIMEOUT == 3000

\* The screen of the driver: three seats, in screen order, and their labels.
ScreenSeats == <<"s1", "s2", "s3">>

SeatIdSet == {ScreenSeats[n] : n \in 1..Len(ScreenSeats)}

seatNumber(id) ==
    CASE id = "s1" -> "A1"
      [] id = "s2" -> "A2"
      [] id = "s3" -> "A3"

\* Shows playing on that one screen.
Shows == {"show1", "show2"}

pricePerSeat(show) == 300

Attempts == 1..NumAttempts

\* The calls of a race with one caller more.
Racers == 1..(NumAttempts + 1)

\* The (show, seatIds) arguments bookSeats is called with: the two requests
\* of the driver, and the first with its ids in the other order.
Requests ==
    { <<"show1", <<"s1", "s2">> >>, <<"show1", <<"s2", "s1">> >>,
      <<"show1", <<"s2", "s3">> >> }

\* ------------------------------------------------------------- lock store
NoEntry == [value |-> 0, expiresAt |-> 0 - 1]

\* `seat_lock:${show.id}:${seat.id}`, the key of the lock loop
lockKey(show, seat) == <<"seat_lock", show, seat>>

\* `seat_lock:${seat.id}`, the key of the finally block
finallyKey(show, seat) == <<"seat_lock", seat>>

\* Mutant: the unlock loop addresses the key without the show id.
unlockKeyNoShow(show, seat) == <<"seat_lock", seat>>

\* `seat_lock:${show.id}:${s.id}`, the key of the unlock loop
unlockKey(show, seat) == <<"seat_lock", show, seat>>

Keys ==
    {lockKey(sh, s) : sh \in Shows, s \in SeatIdSet}
        \cup {<<"seat_lock", s>> : s \in SeatIdSet}

\* Mutant: an entry blocks the key whether or not its lease has run out.
RedisSetNoExpiry(st, key, value, t) ==
    IF st[key] # NoEntry
    THEN [ok |-> FALSE, store |-> st]
    ELSE [ok |-> TRUE,
          store |-> [st EXCEPT ![key] =
                        [value |-> value, expiresAt |-> t + LOCK_TIMEOUT]]]

\* Mutant: an entry still blocks the key at the instant its lease ends.
RedisSetInclusive(st, key, value, t) ==
    IF st[key] # NoEntry /\ st[key].expiresAt >= t
    THEN [ok |-> FALSE, store |-> st]
    ELSE [ok |-> TRUE,
          store |-> [st EXCEPT ![key] =
                        [value |-> value, expiresAt |-> t + LOCK_TIMEOUT]]]

\* Mutant: the holder of a live entry may take the key again.
RedisSetReentrant(st, key, value, t) ==
    IF st[key] # NoEntry /\ st[key].expiresAt > t /\ st[key].value # value
    THEN [ok |-> FALSE, store |-> st]
    ELSE [ok |-> TRUE,
          store |-> [st EXCEPT ![key] =
                        [value |-> value, expiresAt |-> t + LOCK_TIMEOUT]]]

\* DummyRedis.set: [ok, store]
RedisSet(st, key, value, t) ==
    LET existing == st[key] IN
    IF existing # NoEntry /\ existing.expiresAt > t
    THEN [ok |-> FALSE, store |-> st]
    ELSE [ok |-> TRUE,
          store |-> [st EXCEPT ![key] =
                        [value |-> value, expiresAt |-> t + LOCK_TIMEOUT]]]

\* Mutant: del empties the whole store.
RedisDelClears(st, key) == [k \in DOMAIN st |-> NoEntry]

\* Mutant: del removes nothing.
RedisDelNothing(st, key) == st

\* DummyRedis.del
RedisDel(st, key) == [st EXCEPT ![key] = NoEntry]

acquireLock(st, key, value, t) == RedisSet(st, key, value, t)

releaseLock(st, key) == RedisDel(st, key)

\* ----------------------------------------------------------------- state
VARIABLES
    now,          \* Date.now()
    store,        \* DummyRedis.store
    status,       \* Seat.status of every seat of the screen
    bookings,     \* BookingSystem.bookings
    att,          \* the bookSeats calls: position and locals of each
    lockCall,     \* history: the last direct call of acquireLock/releaseLock
    seatCall,     \* history: the last direct call of Seat.book or of a
                  \* member of BookingSystem other than bookSeats
    \* vending machine (vending-machine.ts)
    vmState,          \* VendingMachine.state, by its name
    coins,            \* CashRegister.coins: count per coin
    selectedItemCode, \* VendingMachineContext.selectedItemCode
    stock,            \* Inventory.stock: quantity per item code
    inserted,         \* how many coins have been inserted so far
    vmLast            \* history: the last call, what it dispensed, and the
                      \* coins inserted since the dispense before

VARIABLES
    \* ATM (car-rental.ts, ATMMachineContext)
    currentState,      \* ATMMachineContext.currentState, by its name
    cashInventory,     \* ATMInventory.cashInventory: count per bill
    currentCard,       \* ATMMachineContext.currentCard
    selectedOperation, \* ATMMachineContext.selectedOperation
    balance,           \* Card.balance of every card
    transactions,      \* how many times performTransaction has run
    atmLast            \* history: the last call and whether it failed

VARIABLES
    \* car rental (car-rental.ts, ReservationManager)
    vehicleStatus,     \* Vehicle.status of every vehicle
    reservations,      \* ReservationManager.reservations: id -> reservation
    nextReservationId  \* ReservationManager.nextReservationId

VARIABLES
    \* cache (part_002, Cache with LruEvictionPolicy)
    cacheStore,  \* the Map shared by Cache and policy: entries in Map order
    cacheNow,    \* Date.now() as the cache sees it
    recency,     \* history: the keys used so far, least recently used first
    cacheLast    \* history: the last call of the cache

VARIABLES
    \* elevator system (part_002, ElevatorSystem of the driver)
    elevators,   \* id -> currentFloor, direction and targetFloors of Elevator
    requested,   \* how many requests handleRequest has taken
    elevLast     \* history: the last call of the elevator system

VARIABLES
    \* tic-tac-toe (part_000, GameController)
    grid,               \* Board.grid: the value of every cell
    currentPlayerIndex, \* GameController.currentPlayerIndex
    gameOver,           \* history: a makeMove of this game won or filled the board
    gameLast            \* history: the last call and what it returned

VARIABLES
    \* snake game (snake.ts, Game)
    snakeGame,      \* "none" before new Game(), then "running", then "over"
    body,           \* Snake.body, head first
    foodPosition,   \* Food.position
    direction,      \* Game.direction
    lastDirection,  \* Game.lastDirection
    loops,          \* how many times gameLoop has run
    usedDirections  \* history: the directions the last two gameLoops used

booking == <<now, store, status, bookings, att, lockCall, seatCall>>

cache == <<cacheStore, cacheNow, recency, cacheLast>>

elevator == <<elevators, requested, elevLast>>

tictactoe == <<grid, currentPlayerIndex, gameOver, gameLast>>

snake == <<snakeGame, body, foodPosition, direction, lastDirection, loops,
           usedDirections>>

rental == <<vehicleStatus, reservations, nextReservationId>>

atm == <<currentState, cashInventory, currentCard, selectedOperation, balance,
         transactions, atmLast>>

vending == <<vmState, coins, selectedItemCode, stock, inserted, vmLast>>

vars == <<booking, vending, atm, rental, cache, elevator, tictactoe, snake>>

\* What an operation of the seat booking leaves alone.
outsideBooking == <<vending, atm, rental, cache, elevator, tictactoe, snake>>

\* What an operation of the vending machine leaves alone.
outsideVending == <<booking, atm, rental, cache, elevator, tictactoe, snake>>

\* What an operation of the ATM leaves alone.
outsideAtm == <<booking, vending, rental, cache, elevator, tictactoe, snake>>

\* What an operation of the car rental leaves alone.
outsideRental == <<booking, vending, atm, cache, elevator, tictactoe, snake>>

\* What an operation of the cache leaves alone.
outsideCache == <<booking, vending, atm, rental, elevator, tictactoe, snake>>

\* What an operation of the elevator system leaves alone.
outsideElevator == <<booking, vending, atm, rental, cache, tictactoe, snake>>

\* What an operation of tic-tac-toe leaves alone.
outsideTicTacToe == <<booking, vending, atm, rental, cache, elevator, snake>>

\* What an operation of the snake game leaves alone.
outsideSnake ==
    <<booking, vending, atm, rental, cache, elevator, tictactoe>>

\* op, key, value: the call and its arguments; existing: the entry the key
\* had when the call was made; ok: what acquireLock returned.
NoCall ==
    [op |-> "none", key |-> <<>>, value |-> 0, existing |-> NoEntry, ok |-> TRUE]

\* op: the call; seat: the receiver of book(); id: the booking id passed;
\* threw: whether the call threw.
NoSeatCall == [op |-> "none", seat |-> "", id |-> 0, threw |-> FALSE]

NoResult == [kind |-> "none"]

\* pc: where the call stands; i: the seat of the lock loop; j: the seat of
\* the unlock or finally loop; locked: what the last acquireLock returned;
\* result: what the call returns or throws.  rebook is history: the call
\* was made for the seats of a cancelled booking, all Available, with no
\* other call in flight then or since.
IdleAttempt ==
    [pc |-> "idle", show |-> "show1", seatIds |-> <<>>, i |-> 0, j |-> 0,
     locked |-> FALSE, result |-> NoResult, rebook |-> FALSE]

Range(seq) == {seq[n] : n \in 1..Len(seq)}

\* Mutant: the seats are taken in the order of the request.
selectedSeatsInRequestOrder(show, seatIds) ==
    SelectSeq(seatIds, LAMBDA s : s \in SeatIdSet)

\* show.screen.seats.filter((seat) => seatIds.includes(seat.id))
selectedSeats(show, seatIds) ==
    SelectSeq(ScreenSeats, LAMBDA s : s \in Range(seatIds))

sel(a) == selectedSeats(att[a].show, att[a].seatIds)

\* lockToken = uuidv4(): one fresh value per call; a call is made once per
\* attempt, so the attempt's number stands for it.
lockToken(a) == a

\* ---------------------------------------------- vending machine: the data
\* enum Coin, largest first (the order dispenseChange sorts them into)
Denominations == <<10, 5, 2, 1>>

Coin == Range(Denominations)

\* The items of the driver: code, price and the quantity refilled.
ItemCodes == {"A1", "B1", "C1"}

itemPrice(code) ==
    CASE code = "A1" -> 15
      [] code = "B1" -> 10
      [] code = "C1" -> 12

refilled(code) ==
    CASE code = "A1" -> 3
      [] code = "B1" -> 5
      [] code = "C1" -> 2

\* The codes selectItem is called with: the items and a code of no item.
SelectCodes == ItemCodes \cup {"Z9"}

NoVmCall == [op |-> "none", dispensed |-> "none", paid |-> 0]

\* new VendingMachine() after the three refillItem calls of the driver
VendingInit ==
    /\ vmState = "Idle"
    /\ coins = [c \in Coin |-> 0]
    /\ selectedItemCode = "none"
    /\ stock = [code \in ItemCodes |-> refilled(code)]
    /\ inserted = 0
    /\ vmLast = NoVmCall

\* --------------------------------------------------------- ATM: the data
\* enum CashType, largest first (the order dispenseCash sorts it into)
CashTypes == <<100, 50, 20, 10, 5, 1>>

\* ATMInventory.initializeInventory()
initializeInventory ==
    (100 :> 10) @@ (50 :> 10) @@ (20 :> 20) @@ (10 :> 30) @@ (5 :> 20) @@ (1 :> 50)

\* The cards inserted: the card of the driver, and a card whose balance is
\* above all the cash of the machine.
Cards == {"9999-1111-2222", "8888-0000-0000"}

cardPin(card) == 1234

openingBalance(card) == IF card = "9999-1111-2222" THEN 300 ELSE 3000

\* The arguments of enterPin, selectOperation and performTransaction.
Pins == {1234, 1111}

TransactionType == {"WITHDRAW_CASH", "CHECK_BALANCE"}

Amounts == {120, 400, 2400}

NoAtmCall == [op |-> "none", failed |-> FALSE]

\* new ATMMachineContext() and the cards
AtmInit ==
    /\ currentState = "IdleState"
    /\ cashInventory = initializeInventory
    /\ currentCard = "null"
    /\ selectedOperation = "null"
    /\ balance = [c \in Cards |-> openingBalance(c)]
    /\ transactions = 0
    /\ atmLast = NoAtmCall

\* -------------------------------------------------- car rental: the data
\* Two of the vehicles of the driver, by registration number.
Vehicles == {"ABC123", "XYZ789"}

\* The ids the operations of ReservationManager are called with: those it
\* can have given out and one more.
ReservationIds == 1..(MaxReservations + 1)

\* new ReservationManager(new Map(), 1) and the vehicles of the driver
RentalInit ==
    /\ vehicleStatus = [v \in Vehicles |-> "AVAILABLE"]
    /\ reservations = <<>>
    /\ nextReservationId = 1

\* ------------------------------------------------------- cache: the data
GLOBAL_TTL == 3000

\* new Cache<string, number>(3, lruPolicy, cacheStore)
maxSize == 3

\* The keys and values of the calls: keys of the driver and the empty
\* string, which is a string as well.
CacheKeys == {"", "a", "b", "c"}

CacheValues == {1, 2}

\* The clock moves as in the driver's setTimeout(..., GLOBAL_TTL + 100).
CacheTickMs == GLOBAL_TTL + 100

NoCacheCall == [op |-> "none", key |-> "", hit |-> FALSE]

\* The cache of the driver before its first call.
CacheInit ==
    /\ cacheStore = <<>>
    /\ cacheNow = 0
    /\ recency = <<>>
    /\ cacheLast = NoCacheCall

\* ---------------------------------------------------- elevator: the data
\* new ElevatorSystem(2, 10, strategy)
elevatorCount == 2

maxFloor == 10

ElevatorIds == 0..(elevatorCount - 1)

\* The floors of the requests: floors of the building and the floors next
\* to it on either side, which are numbers as well.
RequestFloors == {-1, 0, 3, maxFloor, maxFloor + 1}

\* elevatorId of an internal request: an elevator or an id none has.
RequestIds == 0..elevatorCount

NoElevatorCall == [op |-> "none", floor |-> 0, id |-> 0]

\* new Elevator(id, maxFloor)
NewElevator == [currentFloor |-> 0, direction |-> "Idle", targetFloors |-> {}]

ElevatorInit ==
    /\ elevators = [e \in ElevatorIds |-> NewElevator]
    /\ requested = 0
    /\ elevLast = NoElevatorCall

\* ------------------------------------------------- tic-tac-toe: the data
\* Board.size
size == 3

Cells == (0..(size - 1)) \X (0..(size - 1))

\* players[0] is Alice with X, players[1] is Bob with O.
players == [i \in 0..1 |-> IF i = 0 THEN "X" ELSE "O"]

\* Cell.value of an empty cell
null == "-"

NoGameCall == [op |-> "none", cell |-> <<0, 0>>, placed |-> FALSE,
               returned |-> FALSE]

\* Board.reset(), and the board the constructor builds
EmptyGrid == [c \in Cells |-> null]

\* new GameController([player1, player2])
GameInit ==
    /\ grid = EmptyGrid
    /\ currentPlayerIndex = 0
    /\ gameOver = FALSE
    /\ gameLast = NoGameCall

\* -------------------------------------------------- snake game: the data
WIDTH == 20

HEIGHT == 10

\* new Game(WIDTH, HEIGHT): constructor(rows, cols)
rows == WIDTH

cols == HEIGHT

Directions == {"UP", "DOWN", "LEFT", "RIGHT"}

\* key.name of a keypress; "c" stands for Ctrl-C, "space" for any other key.
KeyNames == {"up", "down", "left", "right", "c", "space"}

\* Snake.body of a new snake
StartBody == <<[x |-> 5, y |-> 5]>>

\* How far from the first head Math.random() puts the food.
FoodReach == 2

\* The positions Food.generatePosition() draws from.
FoodCells ==
    {[x |-> i, y |-> j] : i \in (5 - FoodReach)..(5 + FoodReach),
                          j \in (5 - FoodReach)..(5 + FoodReach)}

\* Before `new Game(WIDTH, HEIGHT)`.
SnakeInit ==
    /\ snakeGame = "none"
    /\ body = StartBody
    /\ foodPosition = [x |-> 0, y |-> 0]
    /\ direction = "DOWN"
    /\ lastDirection = "DOWN"
    /\ loops = 0
    /\ usedDirections = <<>>

Init ==
    /\ VendingInit
    /\ AtmInit
    /\ RentalInit
    /\ CacheInit
    /\ ElevatorInit
    /\ GameInit
    /\ SnakeInit
    /\ now = 0
    /\ store = [k \in Keys |-> NoEntry]
    /\ status = [s \in SeatIdSet |-> "AVAILABLE"]
    /\ bookings = <<>>
    /\ att = [a \in Racers |-> IdleAttempt]
    /\ lockCall = NoCall
    /\ seatCall = NoSeatCall

\* Date.now() moves on between two stretches of code.
Tick ==
    /\ now + TickMs <= MaxTicks * TickMs
    /\ now' = now + TickMs
    /\ lockCall' = NoCall
    /\ UNCHANGED <<store, status, bookings, att, seatCall, outsideBooking>>


\* ------------------------------------------------------------ domain model
\* Mutant: book() never throws.
SeatBookUnchecked(st, s) ==
    [threw |-> FALSE, status |-> [st EXCEPT ![s] = "BOOKED"]]

\* Seat.book(): throws on a Booked seat, else sets the status to Booked.
SeatBook(st, s) ==
    IF st[s] = "BOOKED"
    THEN [threw |-> TRUE, status |-> st]
    ELSE [threw |-> FALSE, status |-> [st EXCEPT ![s] = "BOOKED"]]

\* Seat.release()
SeatRelease(st, s) == [st EXCEPT ![s] = "AVAILABLE"]

\* Mutant: only the first selected seat is booked.
BookFirstOnly(st, seats) ==
    IF seats = <<>>
    THEN [threw |-> FALSE, status |-> st]
    ELSE SeatBook(st, Head(seats))

\* selectedSeats.forEach(seat => seat.book()): in order, stopped by a throw.
RECURSIVE BookAll(_, _)
BookAll(st, seats) ==
    IF seats = <<>>
    THEN [threw |-> FALSE, status |-> st]
    ELSE LET r == SeatBook(st, Head(seats)) IN
         IF r.threw THEN r ELSE BookAll(r.status, Tail(seats))

\* this.seats.forEach((s) => s.release())
RECURSIVE ReleaseAll(_, _)
ReleaseAll(st, seats) ==
    IF seats = <<>> THEN st ELSE ReleaseAll(SeatRelease(st, Head(seats)), Tail(seats))

\* Mutant: the availability re-check left out.
SomeUnavailableNever(st, seats) == FALSE

\* selectedSeats.some((seat) => seat.status !== SeatStatus.AVAILABLE)
SomeUnavailable(st, seats) == \E s \in Range(seats) : st[s] # "AVAILABLE"

\* Mutant: the price of one seat is charged, however many seats are booked.
NewBookingFlatPrice(a, show, seats, bk) ==
    [id |-> Len(bk) + 1, user |-> a, show |-> show, seats |-> seats,
     totalPrice |-> pricePerSeat(show), status |-> "CONFIRMED"]

\* new Booking(...) followed by booking.confirm(); the id stands for
\* crypto.randomUUID().
NewBooking(a, show, seats, bk) ==
    [id |-> Len(bk) + 1, user |-> a, show |-> show, seats |-> seats,
     totalPrice |-> Len(seats) * pricePerSeat(show), status |-> "CONFIRMED"]

\* The body of the try block of bookSeats: [status, bookings, result].
TryBlock(a, show, seats, st, bk) ==
    IF SomeUnavailable(st, seats)
    THEN [status |-> st, bookings |-> bk, result |-> [kind |-> "unavailable"]]
    ELSE LET r == BookAll(st, seats) IN
         IF r.threw
         THEN [status |-> r.status, bookings |-> bk,
               result |-> [kind |-> "alreadyBooked"]]
         ELSE LET b == NewBooking(a, show, seats, bk) IN
              [status |-> r.status, bookings |-> Append(bk, b),
               result |-> [kind |-> "booking", id |-> b.id]]

\* -------------------------------------------------------------- bookSeats
\* A call that has returned or thrown; its locals keep their last values.
Returned(rec, result) == [rec EXCEPT !.pc = "done", !.result = result]

\* History, for Call: is this a call for the seats of a cancelled booking,
\* all of them Available, made while no other call is in flight?
IsRebook(a, show, seats) ==
    /\ \A b \in Racers \ {a} : att[b].pc \in {"idle", "done"}
    /\ \A s \in Range(seats) : status[s] = "AVAILABLE"
    /\ \E n \in 1..Len(bookings) :
          /\ bookings[n].status = "CANCELLED"
          /\ bookings[n].show = show
          /\ bookings[n].seats = seats
          /\ seats # <<>>

\* The call itself, up to the first await: selectedSeats, the token and the
\* first acquireLock.  With no seat selected the whole function runs through.
Call(a, show, seatIds) ==
    /\ att[a].pc = "idle"
    /\ a > 1 => att[a - 1].pc # "idle"
    /\ LET seats == selectedSeats(show, seatIds)
           others == [b \in Racers |->
                        IF b = a THEN att[b] ELSE [att[b] EXCEPT !.rebook = FALSE]]
           rec == [IdleAttempt EXCEPT !.show = show, !.seatIds = seatIds,
                                      !.rebook = IsRebook(a, show, seats)] IN
       IF seats = <<>>
       THEN LET t == TryBlock(a, show, seats, status, bookings) IN
            /\ status' = t.status
            /\ bookings' = t.bookings
            /\ att' = [others EXCEPT ![a] = Returned(rec, t.result)]
            /\ UNCHANGED store
       ELSE LET key == lockKey(show, seats[1])
                r == acquireLock(store, key, lockToken(a), now) IN
            /\ store' = r.store
            /\ att' = [others EXCEPT ![a] =
                          [rec EXCEPT !.pc = "acq", !.i = 1, !.locked = r.ok]]
            /\ UNCHANGED <<status, bookings>>
    /\ UNCHANGED <<now, lockCall, seatCall, outsideBooking>>

\* Mutant: a call whose acquireLock failed waits for the lock to be free
\* and takes it, instead of giving up.
ContendedWaits(a) ==
    /\ att[a].pc = "acq"
    /\ ~att[a].locked
    /\ LET key == lockKey(att[a].show, sel(a)[att[a].i])
           r == acquireLock(store, key, lockToken(a), now) IN
       /\ r.ok
       /\ store' = r.store
       /\ att' = [att EXCEPT ![a].locked = TRUE, ![a].j = @ + 1]
    /\ UNCHANGED <<now, status, bookings, lockCall, seatCall, outsideBooking>>

\* `if (!locked)`: the first releaseLock of the unlock loop.
Contended(a) ==
    /\ att[a].pc = "acq"
    /\ ~att[a].locked
    /\ LET key == unlockKey(att[a].show, sel(a)[1]) IN
       store' = releaseLock(store, key)
    /\ att' = [att EXCEPT ![a].pc = "unlock", ![a].j = 1]
    /\ UNCHANGED <<now, status, bookings, lockCall, seatCall, outsideBooking>>

\* The lock was acquired and the loop goes on: the next acquireLock.
AcquireNext(a) ==
    /\ att[a].pc = "acq"
    /\ att[a].locked
    /\ att[a].i < Len(sel(a))
    /\ LET key == lockKey(att[a].show, sel(a)[att[a].i + 1])
           r == acquireLock(store, key, lockToken(a), now) IN
       /\ store' = r.store
       /\ att' = [att EXCEPT ![a].i = @ + 1, ![a].locked = r.ok]
    /\ UNCHANGED <<now, status, bookings, lockCall, seatCall, outsideBooking>>

\* The last lock was acquired: the try block, then the first releaseLock of
\* the finally block.
Commit(a) ==
    /\ att[a].pc = "acq"
    /\ att[a].locked
    /\ att[a].i = Len(sel(a))
    /\ LET t == TryBlock(a, att[a].show, sel(a), status, bookings)
           key == finallyKey(att[a].show, sel(a)[1]) IN
       /\ status' = t.status
       /\ bookings' = t.bookings
       /\ store' = releaseLock(store, key)
       /\ att' = [att EXCEPT ![a].pc = "fin", ![a].j = 1, ![a].result = t.result]
    /\ UNCHANGED <<now, lockCall, seatCall, outsideBooking>>

\* The unlock loop goes on, or ends and the contention error is thrown.
Unlock(a) ==
    /\ att[a].pc = "unlock"
    /\ IF att[a].j < Len(sel(a))
       THEN LET key == unlockKey(att[a].show, sel(a)[att[a].j + 1]) IN
            /\ store' = releaseLock(store, key)
            /\ att' = [att EXCEPT ![a].j = @ + 1]
       ELSE /\ att' = [att EXCEPT ![a] = Returned(att[a],
                          [kind |-> "contention",
                           seat |-> seatNumber(sel(a)[att[a].i])])]
            /\ UNCHANGED store
    /\ UNCHANGED <<now, status, bookings, lockCall, seatCall, outsideBooking>>

\* The finally loop goes on, or ends and the call returns or rethrows.
Finally(a) ==
    /\ att[a].pc = "fin"
    /\ IF att[a].j < Len(sel(a))
       THEN LET key == finallyKey(att[a].show, sel(a)[att[a].j + 1]) IN
            /\ store' = releaseLock(store, key)
            /\ att' = [att EXCEPT ![a].j = @ + 1]
       ELSE /\ att' = [att EXCEPT ![a] = Returned(att[a], att[a].result)]
            /\ UNCHANGED store
    /\ UNCHANGED <<now, status, bookings, lockCall, seatCall, outsideBooking>>

\* Booking.cancel() on a booking of getBookings()
Cancel(n) ==
    /\ bookings' = [bookings EXCEPT ![n].status = "CANCELLED"]
    /\ status' = ReleaseAll(status, bookings[n].seats)
    /\ UNCHANGED <<now, store, att, lockCall, seatCall, outsideBooking>>

\* Booking.confirm() on a booking of getBookings()
Confirm(n) ==
    /\ bookings' = [bookings EXCEPT ![n].status = "CONFIRMED"]
    /\ UNCHANGED <<now, store, status, att, lockCall, seatCall, outsideBooking>>

\* ----------------------------------------------------------- lock service
\* The keys and tokens of the direct calls of acquireLock and releaseLock.
DirectKeys == {lockKey("show1", "s1"), lockKey("show1", "s2")}

Tokens == Attempts

\* await acquireLock(key, value), called directly
LockAcquire(key, value) ==
    /\ LET r == acquireLock(store, key, value, now) IN
       /\ store' = r.store
       /\ lockCall' = [op |-> "acquire", key |-> key, value |-> value,
                       existing |-> store[key], ok |-> r.ok]
    /\ UNCHANGED <<now, status, bookings, att, seatCall, outsideBooking>>

\* await releaseLock(key), called directly
LockRelease(key) ==
    /\ store' = releaseLock(store, key)
    /\ lockCall' = [op |-> "release", key |-> key, value |-> 0,
                    existing |-> store[key], ok |-> TRUE]
    /\ UNCHANGED <<now, status, bookings, att, seatCall, outsideBooking>>

\* seat.book(), called directly on a seat of the screen
SeatBookCall(s) ==
    /\ LET r == SeatBook(status, s) IN
       /\ status' = r.status
       /\ seatCall' = [op |-> "book", seat |-> s, id |-> 0, threw |-> r.threw]
    /\ UNCHANGED <<now, store, bookings, att, lockCall, outsideBooking>>

\* The booking ids a caller may pass: those bookSeats can have given out and
\* one more.
BookingIds == 1..(NumAttempts + 1)

\* system.cancelBooking(id): class BookingSystem declares getInstance,
\* bookSeats and getBookings and no other member, so the call is a call of
\* undefined: it throws a TypeError and nothing is changed.
CancelBookingCall(id) ==
    /\ seatCall' = [op |-> "cancelBooking", seat |-> "", id |-> id, threw |-> TRUE]
    /\ UNCHANGED <<now, store, status, bookings, att, lockCall, outsideBooking>>

\* -------------------------------------------------------- vending machine
\* CashRegister.getTotal()
RECURSIVE SumCoins(_, _)
SumCoins(cs, denoms) ==
    IF denoms = <<>> THEN 0
    ELSE Head(denoms) * cs[Head(denoms)] + SumCoins(cs, Tail(denoms))

getTotal(cs) == SumCoins(cs, Denominations)

\* The loop of CashRegister.dispenseChange: coin by coin, largest first, as
\* many of each as fit into the amount and are in the register.
RECURSIVE ChangeLoop(_, _, _)
ChangeLoop(cs, amount, denoms) ==
    IF denoms = <<>> THEN [coins |-> cs, amount |-> amount]
    ELSE LET coin == Head(denoms)
             fit == amount \div coin
             k == IF fit < cs[coin] THEN fit ELSE cs[coin] IN
         ChangeLoop([cs EXCEPT ![coin] = @ - k], amount - k * coin, Tail(denoms))

\* CashRegister.dispenseChange(amount): the register after it, and whether
\* it threw 'Insufficient change' (the coins taken out stay out).
dispenseChange(cs, amount) ==
    LET r == ChangeLoop(cs, amount, Denominations) IN
    [coins |-> r.coins, threw |-> r.amount > 0]

\* Inventory.getItem(code): is there an item of that code with quantity > 0
getItem(st, code) == code \in DOMAIN st /\ st[code] > 0

\* Inventory.reduceItem(code)
reduceItem(st, code) ==
    IF code \in DOMAIN st /\ st[code] > 0
    THEN [ok |-> TRUE, stock |-> [st EXCEPT ![code] = @ - 1]]
    ELSE [ok |-> FALSE, stock |-> st]

\* DispensingState.next: the register after the change was returned (an
\* error of dispenseChange is caught and logged); the next state is Idle.
DispensingNext(cs, code) ==
    LET changeAmount == getTotal(cs) - itemPrice(code) IN
    IF changeAmount > 0 THEN dispenseChange(cs, changeAmount).coins ELSE cs

\* HasMoneyState.next: does it go on to DispensingState?
HasMoneyDispenses ==
    /\ selectedItemCode # "none"
    /\ getItem(stock, selectedItemCode)
    /\ getTotal(coins) >= itemPrice(selectedItemCode)
    /\ reduceItem(stock, selectedItemCode).ok

\* vm.insertCoin(coin)
InsertCoin(coin) ==
    /\ inserted < MaxCoins
    /\ inserted' = inserted + 1
    /\ coins' = [coins EXCEPT ![coin] = @ + 1]
    /\ vmLast' = [op |-> "insertCoin", dispensed |-> "none",
                  paid |-> vmLast.paid + coin]
    /\ UNCHANGED <<vmState, selectedItemCode, stock, outsideVending>>

\* vm.selectItem(code)
SelectItem(code) ==
    /\ selectedItemCode' = code
    /\ vmLast' = [vmLast EXCEPT !.op = "selectItem", !.dispensed = "none"]
    /\ UNCHANGED <<vmState, coins, stock, inserted, outsideVending>>

\* vm.transition(): one state.next, and, when that led to DispensingState,
\* the transition() it calls on itself.
Transition ==
    /\ IF vmState = "Idle"
       THEN /\ vmState' = IF getTotal(coins) > 0 THEN "HasMoney" ELSE "Idle"
            /\ vmLast' = [vmLast EXCEPT !.op = "transition", !.dispensed = "none"]
            /\ UNCHANGED <<coins, stock>>
       ELSE IF HasMoneyDispenses
            THEN /\ stock' = reduceItem(stock, selectedItemCode).stock
                 /\ coins' = DispensingNext(coins, selectedItemCode)
                 /\ vmState' = "Idle"
                 /\ vmLast' = [op |-> "transition",
                               dispensed |-> selectedItemCode, paid |-> 0]
            ELSE /\ vmLast' = [vmLast EXCEPT !.op = "transition",
                                             !.dispensed = "none"]
                 /\ UNCHANGED <<vmState, coins, stock>>
    /\ UNCHANGED <<selectedItemCode, inserted, outsideVending>>

\* -------------------------------------------------------------------- ATM
\* ATMInventory.getTotalCash()
RECURSIVE TotalCash(_, _)
TotalCash(inv, types) ==
    IF types = <<>> THEN 0
    ELSE inv[Head(types)] * Head(types) + TotalCash(inv, Tail(types))

getTotalCash(inv) == TotalCash(inv, CashTypes)

hasSufficientCash(inv, amount) == getTotalCash(inv) >= amount

\* The loop of dispenseCash: [inv, remaining, dispensed]
RECURSIVE DispenseLoop(_, _, _, _)
DispenseLoop(inv, remaining, dispensed, types) ==
    IF types = <<>>
    THEN [inv |-> inv, remaining |-> remaining, dispensed |-> dispensed]
    ELSE LET type == Head(types)
             available == inv[type]
             fit == remaining \div type
             needed == IF fit < available THEN fit ELSE available IN
         IF needed > 0
         THEN DispenseLoop([inv EXCEPT ![type] = available - needed],
                           remaining - needed * type,
                           [dispensed EXCEPT ![type] = needed], Tail(types))
         ELSE DispenseLoop(inv, remaining, dispensed, Tail(types))

\* ATMInventory.dispenseCash(amount): null (ok = FALSE) or the bills, and
\* the inventory after the call; the rollback puts the bills back.
dispenseCash(inv, amount) ==
    IF ~hasSufficientCash(inv, amount)
    THEN [ok |-> FALSE, inv |-> inv]
    ELSE LET r == DispenseLoop(inv, amount, [t \in DOMAIN inv |-> 0], CashTypes) IN
         IF r.remaining > 0
         THEN [ok |-> FALSE,
               inv |-> [t \in DOMAIN inv |-> r.inv[t] + r.dispensed[t]]]
         ELSE [ok |-> TRUE, inv |-> r.inv]

\* Card.withdraw(amount)
CardWithdraw(bal, amount) ==
    IF amount <= bal THEN [ok |-> TRUE, balance |-> bal - amount]
    ELSE [ok |-> FALSE, balance |-> bal]

\* atm.insertCard(card); advanceState() takes IdleState to HasCardState
InsertCard(card) ==
    /\ currentState = "IdleState"
    /\ currentCard' = card
    /\ currentState' = "HasCardState"
    /\ atmLast' = [op |-> "insertCard", failed |-> FALSE]
    /\ UNCHANGED <<cashInventory, selectedOperation, balance, transactions, outsideAtm>>

\* atm.enterPin(pin)
EnterPin(pin) ==
    /\ currentState = "HasCardState"
    /\ currentState' = IF cardPin(currentCard) = pin
                       THEN "SelectOperationState" ELSE "HasCardState"
    /\ atmLast' = [op |-> "enterPin", failed |-> cardPin(currentCard) # pin]
    /\ UNCHANGED <<cashInventory, currentCard, selectedOperation, balance,
                   transactions, outsideAtm>>

\* atm.selectOperation(op)
SelectOperation(op) ==
    /\ currentState = "SelectOperationState"
    /\ selectedOperation' = op
    /\ currentState' = "TransactionState"
    /\ atmLast' = [op |-> "selectOperation", failed |-> FALSE]
    /\ UNCHANGED <<cashInventory, currentCard, balance, transactions, outsideAtm>>

\* atm.performTransaction(amount)
PerformTransaction(amount) ==
    /\ currentState = "TransactionState"
    /\ transactions < MaxTransactions
    /\ transactions' = transactions + 1
    /\ currentState' = "SelectOperationState"
    /\ IF selectedOperation = "WITHDRAW_CASH"
       THEN LET w == CardWithdraw(balance[currentCard], amount)
                d == dispenseCash(cashInventory, amount) IN
            IF ~w.ok
            THEN /\ atmLast' = [op |-> "performTransaction", failed |-> TRUE]
                 /\ UNCHANGED <<cashInventory, selectedOperation, balance>>
            ELSE /\ balance' = [balance EXCEPT ![currentCard] = w.balance]
                 /\ cashInventory' = d.inv
                 /\ atmLast' = [op |-> "performTransaction", failed |-> ~d.ok]
                 /\ selectedOperation' =
                        IF d.ok THEN "null" ELSE selectedOperation
       ELSE /\ selectedOperation' = "null"
            /\ atmLast' = [op |-> "performTransaction", failed |-> FALSE]
            /\ UNCHANGED <<cashInventory, balance>>
    /\ UNCHANGED <<currentCard, outsideAtm>>

\* atm.returnCard()
ReturnCard ==
    /\ currentCard # "null"
    /\ currentCard' = "null"
    /\ selectedOperation' = "null"
    /\ currentState' = "IdleState"
    /\ atmLast' = [op |-> "returnCard", failed |-> FALSE]
    /\ UNCHANGED <<cashInventory, balance, transactions, outsideAtm>>

\* ------------------------------------------------------------- car rental
\* this.reservations.get(reservationId) found a reservation
HasReservation(id) == id \in 1..Len(reservations)

\* reservationManager.createReservation(vehicle, ...)
CreateReservation(vehicle) ==
    /\ Len(reservations) < MaxReservations
    /\ reservations' = Append(reservations,
                              [id |-> nextReservationId, vehicle |-> vehicle,
                               status |-> "PENDING"])
    /\ nextReservationId' = nextReservationId + 1
    /\ UNCHANGED <<vehicleStatus, outsideRental>>

\* reservationManager.confirmReservation(id): nothing happens unless the reservation
\* exists and its status allows the move.
ConfirmReservation(id) ==
    /\ IF HasReservation(id) /\ reservations[id].status = "PENDING"
       THEN /\ reservations' = [reservations EXCEPT ![id].status = "CONFIRMED"]
            /\ vehicleStatus' =
                   [vehicleStatus EXCEPT ![reservations[id].vehicle] = "RESERVED"]
       ELSE UNCHANGED <<reservations, vehicleStatus>>
    /\ UNCHANGED <<nextReservationId, outsideRental>>

\* reservationManager.startRental(id): nothing happens unless the reservation
\* exists and its status allows the move.
StartRental(id) ==
    /\ IF HasReservation(id) /\ reservations[id].status = "CONFIRMED"
       THEN /\ reservations' = [reservations EXCEPT ![id].status = "IN_PROGRESS"]
            /\ vehicleStatus' =
                   [vehicleStatus EXCEPT ![reservations[id].vehicle] = "RENTED"]
       ELSE UNCHANGED <<reservations, vehicleStatus>>
    /\ UNCHANGED <<nextReservationId, outsideRental>>

\* reservationManager.completeRental(id): nothing happens unless the reservation
\* exists and its status allows the move.
CompleteRental(id) ==
    /\ IF HasReservation(id) /\ reservations[id].status = "IN_PROGRESS"
       THEN /\ reservations' = [reservations EXCEPT ![id].status = "COMPLETED"]
            /\ vehicleStatus' =
                   [vehicleStatus EXCEPT ![reservations[id].vehicle] = "AVAILABLE"]
       ELSE UNCHANGED <<reservations, vehicleStatus>>
    /\ UNCHANGED <<nextReservationId, outsideRental>>

\* reservationManager.cancelReservation(id): nothing happens unless the reservation
\* exists and its status allows the move.
CancelReservation(id) ==
    /\ IF HasReservation(id) /\ (reservations[id].status = "PENDING" \/ reservations[id].status = "CONFIRMED")
       THEN /\ reservations' = [reservations EXCEPT ![id].status = "CANCELED"]
            /\ vehicleStatus' =
                   [vehicleStatus EXCEPT ![reservations[id].vehicle] = "AVAILABLE"]
       ELSE UNCHANGED <<reservations, vehicleStatus>>
    /\ UNCHANGED <<nextReservationId, outsideRental>>

\* ------------------------------------------------------------------ cache
\* Map.keys(), Map.has(key), Map.get(key), Map.delete(key) and
\* Map.set(key, entry) of a key the Map does not hold, on the Map as the
\* sequence of its entries in insertion order.
MapKeys(mp) == {mp[n].key : n \in 1..Len(mp)}

MapHas(mp, key) == key \in MapKeys(mp)

MapGet(mp, key) == mp[CHOOSE n \in 1..Len(mp) : mp[n].key = key]

MapDelete(mp, key) == SelectSeq(mp, LAMBDA e : e.key # key)

MapAppend(mp, key, value, expiresAt) ==
    Append(mp, [key |-> key, value |-> value, expiresAt |-> expiresAt])

\* A value JavaScript takes for false in `if (keyToEvict)`.
Falsy(key) == key = ""

\* LruEvictionPolicy.evict(): the first key of the Map, if it has one
evict(mp) == IF Len(mp) > 0 THEN [found |-> TRUE, key |-> mp[1].key]
             ELSE [found |-> FALSE, key |-> ""]

\* LruEvictionPolicy.onAccess and onSet: the entry of a key the Map holds
\* is deleted and set again, which moves it to the end.
MoveToEnd(mp, key) ==
    IF MapHas(mp, key)
    THEN LET e == MapGet(mp, key) IN
         MapAppend(MapDelete(mp, key), key, e.value, e.expiresAt)
    ELSE mp

\* Cache.isFull()
isFull(mp) == Len(mp) >= maxSize

\* History: key has just been used.
Used(rec, key) == Append(SelectSeq(rec, LAMBDA k : k # key), key)

\* cache.get(key)
CacheGet(key) ==
    /\ IF ~MapHas(cacheStore, key)
       THEN /\ cacheLast' = [op |-> "get", key |-> key, hit |-> FALSE]
            /\ UNCHANGED <<cacheStore, recency>>
       ELSE IF cacheNow > MapGet(cacheStore, key).expiresAt
            THEN /\ cacheStore' = MapDelete(cacheStore, key)
                 /\ cacheLast' = [op |-> "get", key |-> key, hit |-> FALSE]
                 /\ UNCHANGED recency
            ELSE /\ cacheStore' = MoveToEnd(cacheStore, key)
                 /\ recency' = Used(recency, key)
                 /\ cacheLast' = [op |-> "get", key |-> key, hit |-> TRUE]
    /\ UNCHANGED <<cacheNow, outsideCache>>

\* The store after cache.set(key, value) at time t.
CacheSetStore(mp, key, value, t) ==
    LET expiresAt == t + GLOBAL_TTL IN
    IF MapHas(mp, key)
    THEN MapAppend(MapDelete(mp, key), key, value, expiresAt)
    ELSE LET e == evict(mp)
             room == IF isFull(mp) /\ e.found /\ ~Falsy(e.key)
                     THEN MapDelete(mp, e.key) ELSE mp IN
         MoveToEnd(MapAppend(room, key, value, expiresAt), key)

\* cache.set(key, value)
CacheSet(key, value) ==
    /\ cacheStore' = CacheSetStore(cacheStore, key, value, cacheNow)
    /\ recency' = Used(recency, key)
    /\ cacheLast' = [op |-> "set", key |-> key, hit |-> MapHas(cacheStore, key)]
    /\ UNCHANGED <<cacheNow, outsideCache>>

\* cache.delete(key)
CacheDelete(key) ==
    /\ cacheStore' = MapDelete(cacheStore, key)
    /\ cacheLast' = [op |-> "delete", key |-> key, hit |-> MapHas(cacheStore, key)]
    /\ UNCHANGED <<cacheNow, recency, outsideCache>>

\* Date.now() moves on between two calls.
CacheTick ==
    /\ cacheNow + CacheTickMs <= MaxTicks * CacheTickMs
    /\ cacheNow' = cacheNow + CacheTickMs
    /\ cacheLast' = NoCacheCall
    /\ UNCHANGED <<cacheStore, recency, outsideCache>>

\* --------------------------------------------------------------- elevator
Max(S) == CHOOSE x \in S : \A y \in S : y <= x

Min(S) == CHOOSE x \in S : \A y \in S : x <= y

Abs(x) == IF x < 0 THEN -x ELSE x

\* Mutant: an elevator above all its targets stays where it is.
updateDirectionNoDown(el) ==
    IF el.targetFloors = {} THEN "Idle"
    ELSE IF el.currentFloor < Min(el.targetFloors) THEN "Up"
    ELSE IF el.currentFloor > Max(el.targetFloors) THEN "Idle"
    ELSE "Up"

\* Elevator.updateDirection(): the direction it sets.  Between the lowest
\* and the highest target, `else if (this.direction = Direction.Up)` assigns
\* Direction.Up, whose value is the non-empty string 'Up', and takes the
\* branch, whatever the direction was.
updateDirection(el) ==
    IF el.targetFloors = {} THEN "Idle"
    ELSE IF el.currentFloor < Min(el.targetFloors) THEN "Up"
    ELSE IF el.currentFloor > Max(el.targetFloors) THEN "Down"
    ELSE "Up"

\* Elevator.step()
ElevatorStepOf(el) ==
    LET dir == updateDirection(el)
        floor == IF dir = "Up" THEN el.currentFloor + 1
                 ELSE IF dir = "Down" THEN el.currentFloor - 1
                 ELSE el.currentFloor
        moved == [currentFloor |-> floor, direction |-> dir,
                  targetFloors |-> el.targetFloors \ {floor}] IN
    [moved EXCEPT !.direction = updateDirection(moved)]

\* Elevator.addRequest(floor): an invalid floor is logged, and added too.
addRequest(el, floor) ==
    [el EXCEPT !.targetFloors = el.targetFloors \cup {floor}]

\* NearestElevatorStrategy.select(elevators, request): the first of the
\* elevators closest to request.fromFloor.
select(els, fromFloor) ==
    LET dist(e) == Abs(els[e].currentFloor - fromFloor) IN
    CHOOSE e \in ElevatorIds :
        /\ \A o \in ElevatorIds : dist(e) <= dist(o)
        /\ \A o \in ElevatorIds : o < e => dist(o) > dist(e)

\* system.handleRequest({ type: External, fromFloor: floor, ... })
ExternalRequest(floor) ==
    /\ requested < MaxRequests
    /\ LET e == select(elevators, floor) IN
       /\ elevators' = [elevators EXCEPT ![e] = addRequest(@, floor)]
       /\ elevLast' = [op |-> "external", floor |-> floor, id |-> e]
    /\ requested' = requested + 1
    /\ UNCHANGED outsideElevator

\* system.handleRequest({ type: Internal, elevatorId: id, toFloor: floor })
InternalRequest(id, floor) ==
    /\ requested < MaxRequests
    /\ elevators' = IF id \in ElevatorIds
                    THEN [elevators EXCEPT ![id] = addRequest(@, floor)]
                    ELSE elevators
    /\ elevLast' = [op |-> "internal", floor |-> floor, id |-> id]
    /\ requested' = requested + 1
    /\ UNCHANGED outsideElevator

\* system.step(): every elevator steps.
SystemStep ==
    /\ elevators' = [e \in ElevatorIds |-> ElevatorStepOf(elevators[e])]
    /\ elevLast' = [op |-> "step", floor |-> 0, id |-> 0]
    /\ UNCHANGED <<requested, outsideElevator>>

\* ------------------------------------------------------------ tic-tac-toe
\* The rows, the columns and the two diagonals of the board.
Lines ==
    {{<<i, j>> : j \in 0..(size - 1)} : i \in 0..(size - 1)}
        \cup {{<<i, j>> : i \in 0..(size - 1)} : j \in 0..(size - 1)}
        \cup {{<<i, i>> : i \in 0..(size - 1)}}
        \cup {{<<i, size - i - 1>> : i \in 0..(size - 1)}}

\* Board.checkWin(symbol)
checkWin(g, symbol) == \E line \in Lines : \A c \in line : g[c] = symbol

\* Board.isFull()
boardIsFull(g) == \A c \in Cells : g[c] # null

\* game.startGame()
StartGame ==
    /\ grid' = EmptyGrid
    /\ currentPlayerIndex' = 0
    /\ gameOver' = FALSE
    /\ gameLast' = [NoGameCall EXCEPT !.op = "startGame"]
    /\ UNCHANGED outsideTicTacToe

\* game.makeMove(new Cell(row, col))
MakeMove(cell) ==
    LET symbol == players[currentPlayerIndex]
        placed == [grid EXCEPT ![cell] = symbol] IN
    /\ IF grid[cell] # null
       THEN /\ gameLast' = [op |-> "makeMove", cell |-> cell,
                            placed |-> FALSE, returned |-> FALSE]
            /\ UNCHANGED <<grid, currentPlayerIndex, gameOver>>
       ELSE /\ grid' = placed
            /\ IF checkWin(placed, symbol)
               THEN /\ gameLast' = [op |-> "makeMove", cell |-> cell,
                                    placed |-> TRUE, returned |-> TRUE]
                    /\ gameOver' = TRUE
                    /\ UNCHANGED currentPlayerIndex
               ELSE IF boardIsFull(placed)
               THEN /\ gameLast' = [op |-> "makeMove", cell |-> cell,
                                    placed |-> TRUE, returned |-> FALSE]
                    /\ gameOver' = TRUE
                    /\ UNCHANGED currentPlayerIndex
               ELSE /\ gameLast' = [op |-> "makeMove", cell |-> cell,
                                    placed |-> TRUE, returned |-> TRUE]
                    /\ currentPlayerIndex' = 1 - currentPlayerIndex
                    /\ UNCHANGED gameOver
    /\ UNCHANGED outsideTicTacToe

\* ------------------------------------------------------------- snake game
\* isOpposite(a, b) of the keypress handler
isOpposite(a, b) ==
    \/ a = "UP" /\ b = "DOWN"
    \/ a = "DOWN" /\ b = "UP"
    \/ a = "LEFT" /\ b = "RIGHT"
    \/ a = "RIGHT" /\ b = "LEFT"

\* Snake.getNextHead(direction)
getNextHead(b, d) ==
    LET head == b[1] IN
    IF d = "UP" THEN [head EXCEPT !.x = @ - 1]
    ELSE IF d = "DOWN" THEN [head EXCEPT !.x = @ + 1]
    ELSE IF d = "LEFT" THEN [head EXCEPT !.y = @ - 1]
    ELSE [head EXCEPT !.y = @ + 1]

\* Snake.crossBoundaries(newHead)
crossBoundaries(newHead) ==
    newHead.x < 0 \/ newHead.x >= rows \/ newHead.y < 0 \/ newHead.y >= cols

\* Snake.selfCrash(newHead, ignoreTail)
selfCrash(b, newHead, ignoreTail) ==
    LET limit == Len(b) - (IF ignoreTail THEN 1 ELSE 0) IN
    \E i \in 1..limit : b[i] = newHead

\* Snake.move(direction, grow): whether it succeeds
moveSucceeds(b, d, grow) ==
    LET newHead == getNextHead(b, d) IN
    ~crossBoundaries(newHead) /\ ~selfCrash(b, newHead, ~grow)

\* Snake.move(direction, grow): the body after a successful move
moved(b, d, grow) ==
    LET grown == <<getNextHead(b, d)>> \o b IN
    IF grow THEN grown ELSE SubSeq(grown, 1, Len(grown) - 1)

\* Game.direction after a keypress, d before it: a turn to the opposite of d
\* is not taken.
Turned(d, key) ==
    IF key = "up" /\ ~isOpposite(d, "UP") THEN "UP"
    ELSE IF key = "down" /\ ~isOpposite(d, "DOWN") THEN "DOWN"
    ELSE IF key = "left" /\ ~isOpposite(d, "LEFT") THEN "LEFT"
    ELSE IF key = "right" /\ ~isOpposite(d, "RIGHT") THEN "RIGHT"
    ELSE d

\* const game = new Game(WIDTH, HEIGHT); game.start()
NewGame ==
    /\ snakeGame = "none"
    /\ snakeGame' = "running"
    /\ \E pos \in FoodCells :
          /\ ~selfCrash(body, pos, FALSE)
          /\ foodPosition' = pos
    /\ UNCHANGED <<body, direction, lastDirection, loops, usedDirections,
                   outsideSnake>>

\* The keypress handler of setupInput()
KeyPress(key) ==
    /\ snakeGame = "running"
    /\ direction' = Turned(direction, key)
    /\ snakeGame' = IF key = "c" THEN "over" ELSE snakeGame
    /\ UNCHANGED <<body, foodPosition, lastDirection, loops, usedDirections,
                   outsideSnake>>

\* gameLoop(), run by the timer
GameLoop ==
    /\ snakeGame = "running"
    /\ loops < MaxLoops
    /\ loops' = loops + 1
    /\ usedDirections' = IF usedDirections = <<>> THEN <<direction>>
                         ELSE <<usedDirections[Len(usedDirections)], direction>>
    /\ LET nextHead == getNextHead(body, direction)
           willGrow == nextHead = foodPosition IN
       IF ~moveSucceeds(body, direction, willGrow)
       THEN /\ snakeGame' = "over"
            /\ UNCHANGED <<body, foodPosition>>
       ELSE /\ body' = moved(body, direction, willGrow)
            /\ snakeGame' = snakeGame
            /\ IF willGrow
               THEN \E pos \in FoodCells :
                        /\ ~selfCrash(moved(body, direction, willGrow), pos,
                                      FALSE)
                        /\ foodPosition' = pos
               ELSE UNCHANGED foodPosition
    /\ UNCHANGED <<direction, lastDirection, outsideSnake>>

Step(a) ==
    \/ Contended(a)
    \/ AcquireNext(a)
    \/ Commit(a)
    \/ Unlock(a)
    \/ Finally(a)

Next ==
    \/ \E a \in Attempts, r \in Requests : Call(a, r[1], r[2])
    \/ \E a \in Attempts : Step(a)
    \/ \E n \in 1..Len(bookings) : Cancel(n)
    \/ Tick

Spec == Init /\ [][Next]_vars

\* bookSeats calls alone, with the clock.
NextBook ==
    \/ \E a \in Attempts, r \in Requests : Call(a, r[1], r[2])
    \/ \E a \in Attempts : Step(a)
    \/ Tick

SpecBook == Init /\ [][NextBook]_vars

\* Calls racing within one lease (the clock stands still, so no lock held
\* by another call runs out), under the scheduler of the runtime: a call
\* suspended at an await is resumed.
NextRace ==
    \/ \E a \in Attempts, r \in Requests : Call(a, r[1], r[2])
    \/ \E a \in Attempts : Step(a)

LiveSpec == Init /\ [][NextRace]_vars /\ \A a \in Attempts : WF_vars(Step(a))

\* bookSeats called with ids that name no seat ("zz") and with no id at all,
\* next to a request whose ids all name seats.
RequestsIds ==
    { <<"show1", <<"s1", "s2">> >>, <<"show1", <<"s1", "zz">> >>,
      <<"show1", <<"zz">> >>, <<"show1", <<>> >> }

NextIds ==
    \/ \E a \in Attempts, r \in RequestsIds : Call(a, r[1], r[2])
    \/ \E a \in Attempts : Step(a)
    \/ Tick

SpecIds == Init /\ [][NextIds]_vars

\* Every operation of a booking, confirm() included.
NextLife ==
    \/ Next
    \/ \E n \in 1..Len(bookings) : Confirm(n)

SpecLife == Init /\ [][NextLife]_vars

\* Seat.book() called directly, between the steps of bookSeats calls.
NextSeat ==
    \/ NextRace
    \/ \E s \in SeatIdSet : SeatBookCall(s)

SpecSeat == Init /\ [][NextSeat]_vars

\* cancelBooking called between the steps of bookSeats calls.
NextCancel ==
    \/ NextRace
    \/ \E id \in BookingIds : CancelBookingCall(id)

SpecCancel == Init /\ [][NextCancel]_vars

\* A race of all callers for the first two seats, within one lease.
NextRacers ==
    \/ \E a \in Racers : Call(a, "show1", <<"s1", "s2">>)
    \/ \E a \in Racers : Step(a)

SpecRacers == Init /\ [][NextRacers]_vars

\* Calls for two shows that play on the one screen, within one lease.
RequestsShows ==
    { <<"show1", <<"s1", "s2">> >>, <<"show2", <<"s1", "s2">> >>,
      <<"show2", <<"s2", "s3">> >> }

NextShows ==
    \/ \E a \in Attempts, r \in RequestsShows : Call(a, r[1], r[2])
    \/ \E a \in Attempts : Step(a)

SpecShows == Init /\ [][NextShows]_vars

\* The vending machine of the driver under any sequence of its operations.
NextVending ==
    \/ \E c \in Coin : InsertCoin(c)
    \/ \E code \in SelectCodes : SelectItem(code)
    \/ Transition

SpecVending == Init /\ [][NextVending]_vars

\* The ATM under any sequence of its operations.
NextAtm ==
    \/ \E card \in Cards : InsertCard(card)
    \/ \E pin \in Pins : EnterPin(pin)
    \/ \E op \in TransactionType : SelectOperation(op)
    \/ \E amount \in Amounts : PerformTransaction(amount)
    \/ ReturnCard

SpecAtm == Init /\ [][NextAtm]_vars

\* The car rental under any sequence of the operations of its manager.
NextRental ==
    \/ \E v \in Vehicles : CreateReservation(v)
    \/ \E id \in ReservationIds : ConfirmReservation(id)
    \/ \E id \in ReservationIds : StartRental(id)
    \/ \E id \in ReservationIds : CompleteRental(id)
    \/ \E id \in ReservationIds : CancelReservation(id)

SpecRental == Init /\ [][NextRental]_vars

\* The cache of the driver under any sequence of get and set, with the
\* clock.
NextCache ==
    \/ \E k \in CacheKeys : CacheGet(k)
    \/ \E k \in CacheKeys, v \in CacheValues : CacheSet(k, v)
    \/ CacheTick

SpecCache == Init /\ [][NextCache]_vars

\* The same with delete, within the lifetime of the entries.
NextCacheOps ==
    \/ \E k \in CacheKeys : CacheGet(k)
    \/ \E k \in CacheKeys, v \in CacheValues : CacheSet(k, v)
    \/ \E k \in CacheKeys : CacheDelete(k)

SpecCacheOps == Init /\ [][NextCacheOps]_vars

\* The elevator system of the driver under any requests.
NextElevator ==
    \/ \E f \in RequestFloors : ExternalRequest(f)
    \/ \E id \in RequestIds, f \in RequestFloors : InternalRequest(id, f)
    \/ SystemStep
SpecElevator == Init /\ [][NextElevator]_vars

\* The same where system.step() keeps being called, as in the driver's loops.
LiveElevator == SpecElevator /\ WF_vars(SystemStep)

\* Tic-tac-toe under any moves.
NextGame ==
    \/ StartGame
    \/ \E c \in Cells : MakeMove(c)
SpecGame == Init /\ [][NextGame]_vars

\* The snake game under any keypresses between the runs of the timer.
NextSnake ==
    \/ NewGame
    \/ \E key \in KeyNames : KeyPress(key)
    \/ GameLoop
SpecSnake == Init /\ [][NextSnake]_vars

\* The lock service alone, under any caller, with the clock.
NextLock ==
    \/ \E k \in DirectKeys, v \in Tokens : LockAcquire(k, v)
    \/ \E k \in DirectKeys : LockRelease(k)
    \/ Tick

SpecLock == Init /\ [][NextLock]_vars

TypeOK ==
    /\ now \in 0..(MaxTicks * TickMs)
    /\ status \in [SeatIdSet -> {"AVAILABLE", "BOOKED"}]
    /\ \A a \in Racers : att[a].pc \in {"idle", "acq", "unlock", "fin", "done"}

\* ------------------------------------------------------------- vocabulary
InFlight(a) == att[a].pc \in {"acq", "unlock", "fin"}

\* The try block of a has produced a booking.
Booked(a) == att[a].result.kind = "booking"

Live(k) == store[k] # NoEntry /\ store[k].expiresAt > now

\* The keys whose entry carries the token of a.
HeldBy(a) == {k \in Keys : store[k].value = lockToken(a)}

\* Two calls on one show with a seat in common.
Overlap(a, b) ==
    /\ a # b
    /\ att[a].pc # "idle" /\ att[b].pc # "idle"
    /\ att[a].show = att[b].show
    /\ Range(sel(a)) \cap Range(sel(b)) # {}

\* a is the call that takes the step.
Moves(a) ==
    <<att[a].pc, att[a].i, att[a].j>> # <<att'[a].pc, att'[a].i, att'[a].j>>

\* The step is an acquireLock of a (the call itself or the lock loop), and
\* the key it asks for.
AcquireStep(a) ==
    /\ Moves(a)
    /\ att'[a].pc = "acq"
    /\ att[a].pc = "idle" \/ att'[a].i = att[a].i + 1

AcqKey(rec) == lockKey(rec.show, selectedSeats(rec.show, rec.seatIds)[rec.i])

\* The seats whose lock a has asked for so far, in the order asked.
AcqSeq(a) == SubSeq(sel(a), 1, att[a].i)

\* The seats whose lock a has been granted: all it asked for, but the last
\* if that was refused.
Granted(a) ==
    LET refused == \/ att[a].pc = "acq" /\ ~att[a].locked
                   \/ att[a].pc = "unlock"
                   \/ att[a].pc = "done" /\ att[a].result.kind = "contention"
        n == IF refused THEN att[a].i - 1 ELSE att[a].i IN
    {sel(a)[m] : m \in 1..n}

\* The keys a has passed to releaseLock so far.
ReleasedKeys(a) ==
    CASE att[a].pc = "unlock" ->
            {unlockKey(att[a].show, sel(a)[n]) : n \in 1..att[a].j}
      [] att[a].pc = "fin" ->
            {finallyKey(att[a].show, sel(a)[n]) : n \in 1..att[a].j}
      [] att[a].pc = "done" /\ att[a].result.kind = "contention" ->
            {unlockKey(att[a].show, sel(a)[n]) : n \in 1..Len(sel(a))}
      [] att[a].pc = "done" /\ att[a].result.kind # "contention" ->
            {finallyKey(att[a].show, sel(a)[n]) : n \in 1..Len(sel(a))}
      [] OTHER -> {}

\* The keys a call in flight was granted and has not released.
Holds(a) ==
    {lockKey(att[a].show, x) : x \in Granted(a)} \ ReleasedKeys(a)

\* ------------------------------------------------------------------ claims
\* C1: of two bookSeats calls on one show that share a seat, at most one
\* gets a booking, and when both have returned at least one of them has
\* failed with the contention error or the seat-unavailable error.
C1_MutualExclusion ==
    \A a, b \in Attempts :
        Overlap(a, b) =>
            /\ ~(Booked(a) /\ Booked(b))
            /\ att[a].pc = "done" /\ att[b].pc = "done" =>
                  \E c \in {a, b} :
                      att[c].result.kind \in {"contention", "unavailable"}

\* Two overlapping calls in flight together: one has committed its booking
\* and the other is on its way out through the unlock loop.
C1_Witness ==
    \E a, b \in Attempts :
        /\ Overlap(a, b)
        /\ att[a].pc = "fin" /\ Booked(a)
        /\ att[b].pc = "unlock"

\* C2 (as claimed): once a bookSeats call has returned, the lock store holds
\* no live entry under the token of that call.
C2_ReleasedOnReturn ==
    \A a \in Attempts :
        att[a].pc = "done" => \A k \in HeldBy(a) : ~Live(k)

\* C3: every step of a bookSeats call either leaves all seats and the
\* booking store alone, or turns all its selected seats from Available to
\* Booked, leaves the other seats alone and appends exactly one Confirmed
\* booking holding those seats; the call's outcome is a booking exactly in
\* the second case.
C3_AllOrNothing ==
    [][\A a \in Attempts :
          Moves(a) =>
              LET seats == selectedSeats(att'[a].show, att'[a].seatIds)
                  n == Len(bookings) IN
              \/ /\ status' = status
                 /\ bookings' = bookings
                 /\ att'[a].result.kind = "booking" => att'[a].result = att[a].result
              \/ /\ \A s \in Range(seats) :
                        status[s] = "AVAILABLE" /\ status'[s] = "BOOKED"
                 /\ \A s \in SeatIdSet \ Range(seats) : status'[s] = status[s]
                 /\ Len(bookings') = n + 1
                 /\ SubSeq(bookings', 1, n) = bookings
                 /\ bookings'[n + 1].status = "CONFIRMED"
                 /\ bookings'[n + 1].seats = seats
                 /\ att[a].result.kind = "none"
                 /\ att'[a].result = [kind |-> "booking", id |-> bookings'[n + 1].id]
      ]_vars

\* A call has committed a booking of two seats while another call, for
\* seats that overlap, ended with an error and has no booking.
C3_Witness ==
    \E a, b \in Attempts :
        /\ Overlap(a, b)
        /\ Booked(a) /\ Len(sel(a)) = 2
        /\ \A s \in Range(sel(a)) : status[s] = "BOOKED"
        /\ att[b].pc = "done" /\ ~Booked(b)
        /\ Len(bookings) = 1

\* C4: a call whose acquireLock failed ends with the contention error that
\* names the seat of the failed acquireLock, and when it has ended no entry
\* of the lock store carries its token.
C4_ContentionRollback ==
    \A a \in Attempts :
        att[a].pc = "done" /\ sel(a) # <<>> /\ ~att[a].locked =>
            /\ att[a].result =
                   [kind |-> "contention", seat |-> seatNumber(sel(a)[att[a].i])]
            /\ HeldBy(a) = {}

\* A call has failed on its second seat, after it had acquired the first.
C4_Witness ==
    \E a \in Attempts :
        /\ att[a].pc = "done"
        /\ att[a].i = 2 /\ ~att[a].locked
        /\ att[a].result.kind = "contention"

\* C5: two calls on one show ask for the locks of the seats they have in
\* common in the same relative order, whatever the order of their seatIds.
C5_FixedOrder ==
    \A a, b \in Attempts :
        a < b /\ att[a].show = att[b].show =>
            LET sa == AcqSeq(a)
                sb == AcqSeq(b) IN
            \A m, n \in 1..Len(sa) : \A p, q \in 1..Len(sb) :
                sa[m] = sb[p] /\ sa[n] = sb[q] => (m < n <=> p < q)

\* Two calls whose seatIds name the same two seats in opposite orders have
\* both asked for both locks.
C5_Witness ==
    \E a, b \in Attempts :
        /\ a # b
        /\ att[a].show = att[b].show
        /\ att[a].seatIds = <<"s1", "s2">> /\ att[b].seatIds = <<"s2", "s1">>
        /\ att[a].i = 2 /\ att[b].i = 2

\* C6: a call in flight can always take its next step, whatever locks the
\* other calls hold, and under fair scheduling it returns or throws.
C6_NoDeadlock ==
    \A a \in Attempts :
        /\ [](InFlight(a) => ENABLED Step(a))
        /\ InFlight(a) ~> att[a].pc = "done"

\* Two overlapping calls are in flight and one of them has just been
\* refused a lock.
C6_Witness ==
    \E a, b \in Attempts :
        /\ Overlap(a, b)
        /\ att[a].pc = "acq" /\ att[a].locked
        /\ att[b].pc = "acq" /\ ~att[b].locked

\* C7 (as claimed): while a key has a live entry, an acquireLock on it by
\* another call fails, and the entry changes only by a release of the call
\* whose token it carries.
C7_HeldUntilReleased ==
    [][\A k \in Keys :
          Live(k) =>
              /\ \A b \in Attempts :
                    AcquireStep(b) /\ AcqKey(att'[b]) = k => ~att'[b].locked
              /\ store'[k] # store[k] =>
                    /\ store'[k] = NoEntry
                    /\ \E a \in Attempts : Moves(a) /\ lockToken(a) = store[k].value
      ]_vars

\* C8 (as claimed): the try block of a call runs only while the call holds
\* the live lock of every selected seat, and a seat changes its status only
\* in a step of a call that holds the live lock of that seat.
C8_StatusChangeUnderLock ==
    [][/\ \A a \in Attempts :
             att[a].pc = "acq" /\ att'[a].pc = "fin" =>
                 \A s \in Range(sel(a)) :
                     LET k == lockKey(att[a].show, s) IN
                     Live(k) /\ store[k].value = lockToken(a)
       /\ \A s \in SeatIdSet :
             status'[s] # status[s] =>
                 \E a \in Attempts :
                     LET k == lockKey(att[a].show, s) IN
                     Moves(a) /\ Live(k) /\ store[k].value = lockToken(a)
      ]_vars

\* C9 (as claimed): cancel() leaves the booking Cancelled and its seats
\* Available, and a call made afterwards for the seats of the cancelled
\* booking, with no other call around, ends with a booking.
C9_CancelThenRebook ==
    /\ [][\A n \in 1..Len(bookings) :
             bookings[n].status = "CONFIRMED" /\ bookings'[n].status = "CANCELLED" =>
                 \A s \in Range(bookings[n].seats) : status'[s] = "AVAILABLE"
       ]_vars
    /\ [](\A a \in Attempts :
             att[a].rebook /\ att[a].pc = "done" => Booked(a))

\* C10: a key with a live entry (now < expiresAt = t + LOCK_TIMEOUT) is given
\* to no acquireLock and keeps its entry unless a release removes it; an
\* acquireLock on a key whose entry has run out succeeds and writes the
\* caller's token with a new lease.
C10_Lease ==
    [][\A k \in Keys :
          /\ Live(k) =>
                /\ store'[k] = store[k] \/ store'[k] = NoEntry
                /\ \A a \in Attempts :
                      AcquireStep(a) /\ AcqKey(att'[a]) = k => ~att'[a].locked
          /\ ~Live(k) =>
                \A a \in Attempts :
                    AcquireStep(a) /\ AcqKey(att'[a]) = k =>
                        /\ att'[a].locked
                        /\ store'[k] = [value |-> lockToken(a),
                                        expiresAt |-> now + LOCK_TIMEOUT]
      ]_vars

\* A call holds, under its own token, a key that an earlier call acquired
\* and never released: the lease ran out and the key was taken over.
C10_Witness ==
    \E a, b \in Attempts : \E s \in Range(sel(b)) :
        /\ b < a
        /\ Booked(b)
        /\ store[lockKey(att[b].show, s)].value = lockToken(a)
        /\ store[lockKey(att[b].show, s)].expiresAt >= 2 * LOCK_TIMEOUT

\* C11: acquireLock returns true exactly when the key has no entry or an
\* entry whose expiry is not after now, and then the key holds the caller's
\* value with expiresAt = now + LOCK_TIMEOUT.
C11_AcquireIff ==
    [][lockCall'.op = "acquire" =>
          LET k == lockCall'.key IN
          /\ lockCall'.ok <=> (store[k] = NoEntry \/ store[k].expiresAt <= now)
          /\ lockCall'.ok =>
                store'[k] = [value |-> lockCall'.value,
                             expiresAt |-> now + LOCK_TIMEOUT]
      ]_vars

\* An acquireLock has succeeded on a key that held the entry of another
\* token, whose expiry had passed.
C11_Witness ==
    /\ lockCall.op = "acquire" /\ lockCall.ok
    /\ lockCall.existing # NoEntry
    /\ lockCall.existing.value # lockCall.value
    /\ store[lockCall.key].expiresAt = now + LOCK_TIMEOUT

\* C12: an acquireLock on a key with a live entry returns false and leaves
\* the whole store as it was, also when the caller's value is the one the
\* entry holds.
C12_NotReentrant ==
    [][lockCall'.op = "acquire" /\ Live(lockCall'.key) =>
          /\ ~lockCall'.ok
          /\ store' = store
      ]_vars

\* The holder of a live entry has asked for its key again, later in the
\* lease, and was refused.
C12_Witness ==
    /\ lockCall.op = "acquire" /\ ~lockCall.ok
    /\ lockCall.existing.value = lockCall.value
    /\ lockCall.existing.expiresAt < now + LOCK_TIMEOUT
    /\ store[lockCall.key] = lockCall.existing

\* C13: the store holds one entry at most under each key, so at most one
\* unexpired one, and an acquireLock on a key whose entry has run out is
\* not refused.
C13_OneLiveEntry ==
    /\ [](\A k \in Keys :
             Cardinality({v \in Tokens : Live(k) /\ store[k].value = v}) <= 1)
    /\ [][lockCall'.op = "acquire" /\ store[lockCall'.key] # NoEntry
              /\ ~Live(lockCall'.key) => lockCall'.ok]_vars

\* An acquireLock found an entry whose expiry had passed, and succeeded.
C13_Witness ==
    /\ lockCall.op = "acquire" /\ lockCall.ok
    /\ lockCall.existing # NoEntry
    /\ lockCall.existing.expiresAt <= now

\* C14: releaseLock on a key without entry leaves the store as it was and
\* raises nothing, and releasing a key twice leaves the store that one
\* release leaves.
C14_ReleaseIdempotent ==
    /\ [][lockCall'.op = "release" /\ store[lockCall'.key] = NoEntry =>
              store' = store /\ lockCall'.ok]_vars
    /\ [](\A k \in Keys :
             releaseLock(releaseLock(store, k), k) = releaseLock(store, k))

\* A key without entry was released while the other key held a live entry.
C14_Witness ==
    /\ lockCall.op = "release"
    /\ lockCall.existing = NoEntry
    /\ \E k \in DirectKeys : Live(k)

\* C15: after releaseLock(key) the key has no entry, whatever entry it had,
\* and an acquireLock on it by any token would succeed.
C15_ReleaseAnyHolder ==
    [][lockCall'.op = "release" =>
          LET k == lockCall'.key IN
          /\ store'[k] = NoEntry
          /\ \A v \in Tokens : acquireLock(store', k, v, now').ok
      ]_vars

\* A releaseLock found a live entry under its key and removed it.
C15_Witness ==
    /\ lockCall.op = "release"
    /\ lockCall.existing # NoEntry
    /\ lockCall.existing.expiresAt > now
    /\ store[lockCall.key] = NoEntry

\* The booking that the call a got.
BookingOf(a) == bookings[CHOOSE n \in 1..Len(bookings) :
                            bookings[n].id = att[a].result.id]

\* C16 (as claimed): when a bookSeats call has thrown the seat-unavailable
\* error, it has booked no seat and the lock store holds no live entry under
\* its token.
C16_UnavailableReleases ==
    \A a \in Attempts :
        att[a].pc = "done" /\ att[a].result.kind = "unavailable" =>
            /\ \A n \in 1..Len(bookings) : bookings[n].user # a
            /\ \A k \in HeldBy(a) : ~Live(k)

\* C17: the booking a call returns is in the booking store, is Confirmed,
\* belongs to the show of the call, holds each seat that an id of the
\* request names, once, and costs the number of its seats times the price
\* per seat of the show.
C17_ReturnedBooking ==
    \A a \in Attempts :
        att[a].pc = "done" /\ Booked(a) =>
            /\ \E n \in 1..Len(bookings) : bookings[n].id = att[a].result.id
            /\ BookingOf(a).status = "CONFIRMED"
            /\ BookingOf(a).show = att[a].show
            /\ Range(BookingOf(a).seats) = Range(att[a].seatIds) \cap SeatIdSet
            /\ Len(BookingOf(a).seats) = Cardinality(Range(BookingOf(a).seats))
            /\ BookingOf(a).totalPrice =
                   Len(BookingOf(a).seats) * pricePerSeat(att[a].show)

\* A call for two seats has returned its booking, of price 600.
C17_Witness ==
    \E a \in Attempts :
        /\ att[a].pc = "done" /\ Booked(a)
        /\ BookingOf(a).seats = <<"s1", "s2">>
        /\ BookingOf(a).totalPrice = 600

\* C18 (as claimed): a booking never holds fewer seats than its request
\* has distinct ids.
C18_NoUnderBooking ==
    \A a \in Attempts :
        Booked(a) =>
            Len(BookingOf(a).seats) >= Cardinality(Range(att[a].seatIds))

\* C19 (as claimed): every booking of the booking store holds a seat.
C19_NoEmptyBooking ==
    \A n \in 1..Len(bookings) : Len(bookings[n].seats) >= 1

\* C20 (as claimed): a booking changes its status only from Pending to
\* Confirmed or Cancelled or from Confirmed to Cancelled; a Cancelled
\* booking stays Cancelled.
C20_StatusTransitions ==
    [][\A n \in 1..Len(bookings) :
          bookings'[n].status # bookings[n].status =>
              /\ bookings[n].status \in {"PENDING", "CONFIRMED"}
              /\ bookings'[n].status \in {"CONFIRMED", "CANCELLED"}
      ]_vars

\* C21: a direct call of Seat.book() on a Booked seat throws and leaves
\* every seat as it was; on an Available seat it does not throw and makes
\* that seat Booked and leaves the other seats alone; either way the lock
\* store, the booking store and the bookSeats calls are untouched.
C21_SeatBook ==
    [][\A s \in SeatIdSet :
          seatCall'.op = "book" /\ seatCall'.seat = s
              /\ (\A a \in Attempts : ~Moves(a)) =>
                  /\ status[s] = "BOOKED" =>
                         seatCall'.threw /\ status' = status
                  /\ status[s] = "AVAILABLE" =>
                         /\ ~seatCall'.threw
                         /\ status' = [status EXCEPT ![s] = "BOOKED"]
                  /\ UNCHANGED <<now, store, bookings, att>>
      ]_vars

\* Seat.book() has thrown on a seat that a bookSeats call had booked.
C21_Witness ==
    /\ seatCall.op = "book" /\ seatCall.threw
    /\ status[seatCall.seat] = "BOOKED"
    /\ \E n \in 1..Len(bookings) : seatCall.seat \in Range(bookings[n].seats)

\* C22 (as claimed): cancelBooking(id) with an id of no booking of the
\* store throws and changes no booking and no seat; with the id of a
\* Confirmed booking it makes that booking Cancelled and its seats Available.
C22_CancelBooking ==
    [][seatCall'.op = "cancelBooking" /\ (\A a \in Attempts : ~Moves(a)) =>
          LET id == seatCall'.id IN
          /\ (\A n \in 1..Len(bookings) : bookings[n].id # id) =>
                 seatCall'.threw /\ UNCHANGED <<bookings, status>>
          /\ \A n \in 1..Len(bookings) :
                 bookings[n].id = id /\ bookings[n].status = "CONFIRMED" =>
                     /\ bookings'[n].status = "CANCELLED"
                     /\ \A x \in Range(bookings[n].seats) :
                            status'[x] = "AVAILABLE"
      ]_vars

\* C23 (as claimed): with the clock standing still, no two bookSeats calls
\* in flight both have been granted the lock of one seat without having
\* released it.
C23_OneHolder ==
    \A a, b \in Racers :
        a # b /\ InFlight(a) /\ InFlight(b) => Holds(a) \cap Holds(b) = {}

\* C24 (as claimed): every key a bookSeats call has passed to releaseLock
\* is the key of a lock that this call was granted.
C24_ReleasesOwnLocks ==
    \A a \in Attempts :
        ReleasedKeys(a) \subseteq {lockKey(att[a].show, x) : x \in Granted(a)}

\* The Confirmed bookings that hold seat x.
ConfirmedWith(x) ==
    {n \in 1..Len(bookings) :
        bookings[n].status = "CONFIRMED" /\ x \in Range(bookings[n].seats)}

\* C25 (as claimed): a seat is Booked if and only if exactly one Confirmed
\* booking holds it, and no seat is held by two Confirmed bookings.
C25_BookedIffConfirmed ==
    \A x \in SeatIdSet :
        /\ status[x] = "BOOKED" <=> Cardinality(ConfirmedWith(x)) = 1
        /\ Cardinality(ConfirmedWith(x)) <= 1

\* C26 (as claimed): two bookSeats calls in flight for two different shows
\* have never both been granted the lock of one seat.
C26_CommonLockAcrossShows ==
    \A a, b \in Attempts :
        /\ InFlight(a) /\ InFlight(b)
        /\ att[a].show # att[b].show
        => Granted(a) \cap Granted(b) = {}

\* C27 (as claimed): when a transition has dispensed an item the register
\* holds no credit, and a transition dispenses an item only if the coins
\* inserted since the dispense before cover its price.
C27_CoinsPayOnce ==
    /\ [](vmLast.dispensed # "none" => getTotal(coins) = 0)
    /\ [][vmLast'.dispensed # "none" /\ stock' # stock =>
             vmLast.paid >= itemPrice(vmLast'.dispensed)]_vars

\* C28 (as claimed): a performTransaction that fails leaves the balance of
\* every card and the cash inventory as they were before the call.
C28_FailedWithdrawal ==
    [][atmLast'.op = "performTransaction" /\ atmLast'.failed
           /\ currentState = "TransactionState" =>
               balance' = balance /\ cashInventory' = cashInventory]_vars

\* The reservations of vehicle v whose status is rs.
ReservationsIn(v, rs) ==
    {id \in 1..Len(reservations) :
        reservations[id].vehicle = v /\ reservations[id].status = rs}

\* C29 (as claimed): a vehicle is RESERVED exactly when one reservation of it
\* is CONFIRMED, RENTED exactly when one is IN_PROGRESS, AVAILABLE exactly
\* when none is either, and never has two reservations that are CONFIRMED or
\* IN_PROGRESS.
C29_VehicleStatus ==
    \A v \in Vehicles :
        LET confirmed == ReservationsIn(v, "CONFIRMED")
            inProgress == ReservationsIn(v, "IN_PROGRESS") IN
        /\ vehicleStatus[v] = "RESERVED" <=> Cardinality(confirmed) = 1
        /\ vehicleStatus[v] = "RENTED" <=> Cardinality(inProgress) = 1
        /\ vehicleStatus[v] = "AVAILABLE" <=> confirmed \cup inProgress = {}
        /\ Cardinality(confirmed \cup inProgress) <= 1

\* The key of the Map that was used least recently.
LeastRecentlyUsed(mp, rec) ==
    rec[CHOOSE n \in 1..Len(rec) :
           /\ rec[n] \in MapKeys(mp)
           /\ \A m \in 1..(n - 1) : rec[m] \notin MapKeys(mp)]

\* C30 (as claimed): a set of a key the cache does not hold, made when the
\* cache is full, removes exactly one key, the one used least recently, and
\* takes the new key in.
C30_EvictsLeastRecentlyUsed ==
    [][cacheLast'.op = "set" /\ ~MapHas(cacheStore, cacheLast'.key)
           /\ isFull(cacheStore) =>
               /\ MapKeys(cacheStore) \ MapKeys(cacheStore') =
                      {LeastRecentlyUsed(cacheStore, recency)}
               /\ MapKeys(cacheStore') \ MapKeys(cacheStore) = {cacheLast'.key}
      ]_vars

\* C31 (as claimed): the cache never holds more entries than maxSize.
C31_SizeWithinMax == Len(cacheStore) <= maxSize

\* An elevator at rest: no targets, direction Idle.
AtRest(e) ==
    /\ elevators[e].targetFloors = {}
    /\ elevators[e].direction = "Idle"

\* C32: while system.step() keeps being called, every floor of the building
\* that is a target of an elevator is reached by that elevator and taken out
\* of its targets, and once the requests have stopped every elevator comes
\* to rest for good, Idle and without targets.
C32_TargetsServed ==
    /\ \A e \in ElevatorIds : \A f \in RequestFloors \cap (0..maxFloor) :
          (f \in elevators[e].targetFloors)
              ~> (elevators[e].currentFloor = f
                  /\ f \notin elevators[e].targetFloors)
    /\ <>[](\A e \in ElevatorIds : AtRest(e))

\* C32 happens: both requests went to elevator 0, which has travelled to the
\* top floor and is at rest there.
C32_Witness ==
    /\ requested = MaxRequests
    /\ elevators[0].currentFloor = maxFloor
    /\ AtRest(0)
    /\ elevLast.op = "step"

\* C33 (as claimed): every elevator is on a floor of the building, and only
\* floors of the building are among its targets.
C33_WithinBuilding ==
    \A e \in ElevatorIds :
        /\ elevators[e].currentFloor \in 0..maxFloor
        /\ elevators[e].targetFloors \subseteq 0..maxFloor

\* A makeMove call of a game that has ended puts no symbol on the board.
NoMoveAfterEnd ==
    (gameOver /\ gameLast'.op = "makeMove") => grid' = grid

\* A makeMove call of a game that has not ended, and does not end with it,
\* passes the turn if it placed a symbol and keeps it if it was rejected.
TurnRule ==
    (~gameOver /\ ~gameOver' /\ gameLast'.op = "makeMove") =>
        currentPlayerIndex' = IF gameLast'.placed
                              THEN 1 - currentPlayerIndex
                              ELSE currentPlayerIndex

\* C34 (as claimed): once a makeMove has won or filled the board, no later
\* makeMove places a symbol; before that the turn passes to the other player
\* after a successful move and stays after a rejected one.
C34_GameEnds == [][NoMoveAfterEnd /\ TurnRule]_vars

\* The turn rule of C34 alone.
TurnRuleHolds == [][TurnRule]_vars

\* C35 (as claimed): the direction a gameLoop uses is never the opposite of
\* the direction the gameLoop before it used.
C35_NoReversal ==
    Len(usedDirections) = 2 => ~isOpposite(usedDirections[1], usedDirections[2])

\* A snake of three segments or more has not been ended by a gameLoop that
\* used the opposite of the direction of the gameLoop before it.
NoNeckCrash ==
    ~(/\ snakeGame = "over"
      /\ Len(body) >= 3
      /\ Len(usedDirections) = 2
      /\ isOpposite(usedDirections[1], usedDirections[2])
      /\ getNextHead(body, usedDirections[2]) = body[2])

=============================================================================
